---- MODULE Spec2Model ----
(***************************************************************************)
(* Session registry of the SM64 Co-op DX bot (src/sm64coopdx_bot.py):      *)
(* the /play, /session and /stop command handlers, the delayed removal     *)
(* that follows a successful /stop, and the two tasks.loop sweeps.         *)
(*                                                                         *)
(* All handlers run on one asyncio event loop: the code between two awaits *)
(* is one atomic step, and every await whose continuation touches the      *)
(* registry is a separate action.                                          *)
(*                                                                         *)
(* session_manager.py, utils.py and config.py are imported by the bot but  *)
(* are not part of the available sources; SessionManager, Session,         *)
(* is_long_session and the two thresholds are modelled after spec.md.      *)
(*                                                                         *)
(* Time is counted in seconds.  The clock advances in steps of ClockStep,  *)
(* and the two configured thresholds are scaled down so that they are      *)
(* crossed within MaxTime.                                                 *)
(***************************************************************************)
EXTENDS Integers, Sequences, FiniteSets, TLC

\* ---------------------------------------------------------------- bounds
MaxSessions == 2
ClockStep == 150
MaxTime == 450

\* the guilds the bot is in and the users who type commands
Guilds == {1, 2}
Users == {1, 2}
Ids == 1..MaxSessions

\* ------------------------------------------------------ program constants
\* asyncio.sleep(300) between the end of a session and remove_session
REMOVE_DELAY == 300
\* config.SESSION_WARNING_THRESHOLD_HOURS, in seconds (scaled)
SESSION_WARNING_THRESHOLD == 150
\* config.MAX_SESSION_DURATION_HOURS, in seconds (scaled)
MAX_SESSION_DURATION == 300

\* the values of the `contraseña` argument of /play
PasswordInputs == {"", " ", "pw", "pw2"}

None == 0
NoTime == -1
NoPassword == "None"

\* interaction.channel.id: the channel of guild g the command was typed in
channel_of(g) == 10 + g

\* ------------------------------------------------------------ Session
NoRecord ==
    [guild_id |-> None, channel_id |-> None, host_user_id |-> None,
     password |-> NoPassword, start_time |-> NoTime, end_time |-> NoTime,
     is_active |-> FALSE]

\* Session(guild_id, channel_id, host_user_id, host_username, password)
Session(g, c, u, pw, t) ==
    [guild_id |-> g, channel_id |-> c, host_user_id |-> u,
     password |-> pw, start_time |-> t, end_time |-> NoTime,
     is_active |-> TRUE]

\* get_duration that goes on counting after the session has ended
get_duration_ignores_end(s, t) ==
    IF t - s.start_time < 0 THEN 0 ELSE t - s.start_time

\* Session.get_duration(): (end_time or now) - start_time, clamped at zero
get_duration(s, t) ==
    LET e == IF s.end_time = NoTime THEN t ELSE s.end_time
        d == e - s.start_time
    IN IF d < 0 THEN 0 ELSE d

\* end_record with the is_active assignment forgotten
end_record_still_active(s, t) == [s EXCEPT !.end_time = t]

\* Session.end_session(): stamps end_time and clears is_active
end_record(s, t) == [s EXCEPT !.end_time = t, !.is_active = FALSE]

\* utils.is_long_session(duration, threshold_hours)
is_long_session(d, threshold) == d > threshold

\* str.strip() on the password inputs, then the truthiness test of line 117
strip(p) == IF p = " " THEN "" ELSE p
password_to_use(p) == IF strip(p) # "" THEN p ELSE NoPassword

VARIABLES
    ready,      \* on_ready has run: commands are served and the loops run
    cleanup_running, \* the tasks.loop cleanup_sessions has been started and
                \* has not stopped
    now,        \* the clock (datetime.utcnow())
    heap,       \* the Session objects, by object identity
    sessions,   \* SessionManager.sessions: guild -> Session object (or None)
    order,      \* iteration order of the SessionManager.sessions dict
    nextId,     \* identity of the next Session object
    tasks,      \* the /stop handlers suspended after end_session
    warn_pc,    \* session_warnings: "idle" or "sending" (at channel.send)
    snapshot,   \* session_warnings: the list active_sessions
    warn_i,     \* session_warnings: position in active_sessions
    log,        \* what the current/last warning run did with each entry
    outbox,     \* the notifications the current/last warning run delivered
    ev          \* the last step taken and its outcome

vars == <<ready, cleanup_running, now, heap, sessions, order, nextId, tasks,
          warn_pc, snapshot, warn_i, log, outbox, ev>>

\* ------------------------------------------------------------ helpers
Range(s) == {s[i] : i \in 1..Len(s)}

RECURSIVE Without(_, _)
Without(s, x) ==
    IF s = << >> THEN << >>
    ELSE IF Head(s) = x THEN Without(Tail(s), x)
         ELSE <<Head(s)>> \o Without(Tail(s), x)

Event(op, g, u, out, n, info) ==
    [op |-> op, guild |-> g, user |-> u, outcome |-> out, n |-> n,
     info |-> info]

\* tasks[i] is the /stop handler that ended Session object i
NoTask == [pc |-> "none", guild |-> None, wake |-> NoTime]

\* Session objects nothing refers to any more are dropped
Collect(h, reg, snap, from) ==
    LET live == {reg[g] : g \in Guilds} \cup {snap[j] : j \in {x \in 1..Len(snap) : x >= from}}
    IN [i \in Ids |-> IF i \in live THEN h[i] ELSE NoRecord]

\* ------------------------------------------------------ SessionManager
\* SessionManager.get_session(guild_id)
get_session(reg, g) == reg[g]

\* SessionManager.get_all_active_sessions(): in dict order
RECURSIVE ActiveIn(_, _, _)
ActiveIn(h, reg, ord) ==
    IF ord = << >> THEN << >>
    ELSE LET s == reg[Head(ord)]
         IN (IF h[s].is_active THEN <<s>> ELSE << >>)
            \o ActiveIn(h, reg, Tail(ord))
get_all_active_sessions(h, reg, ord) == ActiveIn(h, reg, ord)

\* dict order after sessions[g] = ...: an existing key keeps its place
order_after_set(ord, g) == IF g \in Range(ord) THEN ord ELSE Append(ord, g)

\* SessionManager.remove_session(guild_id): drops the entry, whatever it is
remove_session(reg, g) == [reg EXCEPT ![g] = None]

Init ==
    /\ ready = FALSE
    /\ cleanup_running = FALSE
    /\ now = 0
    /\ heap = [i \in Ids |-> NoRecord]
    /\ sessions = [g \in Guilds |-> None]
    /\ order = << >>
    /\ nextId = 1
    /\ tasks = [k \in Ids |-> NoTask]
    /\ warn_pc = "idle"
    /\ snapshot = << >>
    /\ warn_i = 0
    /\ log = << >>
    /\ outbox = << >>
    /\ ev = Event("init", None, None, "", 0, "")

\* on_ready with cleanup_sessions.start() left out
on_ready_without_cleanup ==
    /\ ~ready
    /\ ready' = TRUE
    /\ UNCHANGED <<cleanup_running, now, heap, sessions, order, nextId, tasks,
                   warn_pc, snapshot, warn_i, log, outbox>>

\* on_ready(): starts the two loops
on_ready ==
    /\ ~ready
    /\ ready' = TRUE
    /\ cleanup_running' = TRUE
    /\ UNCHANGED <<now, heap, sessions, order, nextId, tasks,
                   warn_pc, snapshot, warn_i, log, outbox>>

\* the clock, as far as limit
TickUntil(limit) ==
    /\ now + ClockStep <= limit
    /\ now' = now + ClockStep
    /\ UNCHANGED <<ready, cleanup_running, heap, sessions, order, nextId, tasks,
                   warn_pc, snapshot, warn_i, log, outbox>>

Tick == TickUntil(MaxTime)

\* SessionManager.start_session(...): a new active Session replaces the entry
start_session(h, reg, id, g, c, u, pw, t) ==
    [heap |-> [h EXCEPT ![id] = Session(g, c, u, pw, t)],
     reg |-> [reg EXCEPT ![g] = id]]

\* SessionManager.end_session(guild_id): ends the stored Session, if any
end_session(h, reg, g, t) ==
    IF reg[g] = None THEN h
    ELSE [h EXCEPT ![reg[g]] = end_record(h[reg[g]], t)]

\* the scan of lines 71-77: the first active Session hosted by `usuario`
RECURSIVE first_hosted_by(_, _, _)
first_hosted_by(h, act, target) ==
    IF act = << >> THEN None
    ELSE IF h[Head(act)].host_user_id = target THEN Head(act)
         ELSE first_hosted_by(h, Tail(act), target)

\* what /play with `usuario` answers (lines 70-114), given the registry
query_reply(h, reg, ord, t, g, target) ==
    LET us == first_hosted_by(h, get_all_active_sessions(h, reg, ord), target)
    IN IF us # None
       THEN Event("query_user", g, target, "in_session",
                  get_duration(h[us], t),
                  IF h[us].password # NoPassword
                  THEN h[us].password ELSE "Sin contraseña")
       ELSE Event("query_user", g, target, "not_in_session", 0, "")

play_query_reply(g, target) ==
    query_reply(heap, sessions, order, now, g, target)

\* /play with `usuario` (lines 70-115): reports on that user's session
play_query(g, target) == UNCHANGED <<heap, sessions, order, nextId>>

\* play_start that answers with the guild's running session when there is one
play_start_keeps_running(g, u, p) ==
    IF sessions[g] # None /\ heap[sessions[g]].is_active
    THEN UNCHANGED <<heap, sessions, order, nextId>>
    ELSE /\ nextId <= MaxSessions
         /\ LET r == start_session(heap, sessions, nextId, g, channel_of(g),
                                   u, password_to_use(p), now)
            IN /\ sessions' = r.reg
               /\ heap' = Collect(r.heap, r.reg, snapshot, warn_i)
         /\ order' = order_after_set(order, g)
         /\ nextId' = nextId + 1

\* /play without `usuario` (lines 117-118): starts a session for the guild
play_start(g, u, p) ==
    /\ nextId <= MaxSessions
    /\ LET r == start_session(heap, sessions, nextId, g, channel_of(g),
                              u, password_to_use(p), now)
       IN /\ sessions' = r.reg
          /\ heap' = Collect(r.heap, r.reg, snapshot, warn_i)
    /\ order' = order_after_set(order, g)
    /\ nextId' = nextId + 1

\* play without the return of line 115: after answering the query it goes on
\* to start a session
play_without_return(g, u, p, target) ==
    /\ ready
    /\ play_start(g, u, p)
    /\ UNCHANGED <<ready, cleanup_running, now, tasks, warn_pc, snapshot, warn_i, log, outbox>>

\* /play (lines 62-163)
play(g, u, p, target) ==
    /\ ready
    /\ IF target # None THEN play_query(g, target) ELSE play_start(g, u, p)
    /\ UNCHANGED <<ready, cleanup_running, now, tasks, warn_pc, snapshot, warn_i, log, outbox>>

\* what /session answers (lines 170-230)
session_info_reply(g) ==
    LET s == get_session(sessions, g)
    IN IF s = None \/ ~heap[s].is_active
       THEN Event("session_info", g, None, "no_active", 0, "")
       ELSE Event("session_info", g, None, "status", get_duration(heap[s], now), "")

\* /session (lines 166-240): read-only report on the guild's session
session_info(g) ==
    /\ ready
    /\ UNCHANGED <<ready, cleanup_running, now, heap, sessions, order, nextId, tasks,
                   warn_pc, snapshot, warn_i, log, outbox>>

\* no_active_session without the is_active test
no_active_session_record_only(h, s) == s = None

\* line 250: `not session or not session.is_active`
no_active_session(h, s) == s = None \/ ~h[s].is_active

\* is_host that lets every user through
is_host_anyone(h, s, u) == TRUE

\* line 259: session.host_user_id == user_id
is_host(h, s, u) == h[s].host_user_id = u

\* stop_outcome with the host check ahead of the active-session check
stop_outcome_host_first(h, s, u) ==
    IF s # None /\ ~is_host(h, s, u) THEN "denied"
    ELSE IF no_active_session(h, s) THEN "no_active"
    ELSE "ended"

\* the branches of lines 250-273, in the order the handler takes them
stop_outcome(h, s, u) ==
    IF no_active_session(h, s) THEN "no_active"
    ELSE IF ~is_host(h, s, u) THEN "denied"
    ELSE "ended"

\* /stop, from its start to its first await (lines 243-309): the two refusals
\* only answer; the host's stop calls end_session and is then suspended in
\* the send of line 309
stop_session(g, u) ==
    /\ ready
    /\ LET s == get_session(sessions, g)
           out == stop_outcome(heap, s, u)
       IN IF out = "ended"
          THEN /\ tasks' = [tasks EXCEPT ![s] =
                         [pc |-> "send", guild |-> g, wake |-> NoTime]]
               /\ heap' = end_session(heap, sessions, g, now)
          ELSE UNCHANGED <<heap, tasks>>
    /\ UNCHANGED <<ready, cleanup_running, now, sessions, order, nextId,
                   warn_pc, snapshot, warn_i, log, outbox>>

\* line 309 returns: the handler goes to sleep for REMOVE_DELAY (line 311)
stop_sent(k) ==
    /\ tasks[k].pc = "send"
    /\ tasks' = [tasks EXCEPT ![k].pc = "sleep", ![k].wake = now + REMOVE_DELAY]
    /\ UNCHANGED <<ready, cleanup_running, now, heap, sessions, order, nextId,
                   warn_pc, snapshot, warn_i, log, outbox>>

\* line 309 raises: the except block of lines 316-322 ends the handler,
\* and lines 311-312 are never reached
stop_send_failed(k) ==
    /\ tasks[k].pc = "send"
    /\ tasks' = [tasks EXCEPT ![k] = NoTask]
    /\ UNCHANGED <<ready, cleanup_running, now, heap, sessions, order, nextId,
                   warn_pc, snapshot, warn_i, log, outbox>>

\* stop_remove that purges the ended record of every guild
stop_remove_every_ended(k) ==
    /\ tasks[k].pc = "sleep"
    /\ now >= tasks[k].wake
    /\ LET gone == {g \in Guilds : g = tasks[k].guild
                        \/ (sessions[g] # None /\ ~heap[sessions[g]].is_active)}
           reg == [g \in Guilds |-> IF g \in gone THEN None ELSE sessions[g]]
       IN /\ sessions' = reg
          /\ order' = SelectSeq(order, LAMBDA g : g \notin gone)
          /\ heap' = Collect(heap, reg, snapshot, warn_i)
    /\ tasks' = [tasks EXCEPT ![k] = NoTask]
    /\ UNCHANGED <<ready, cleanup_running, now, nextId, warn_pc, snapshot, warn_i, log, outbox>>

\* the sleep of line 311 is over: remove_session(guild_id) (line 312)
stop_remove(k) ==
    /\ tasks[k].pc = "sleep"
    /\ now >= tasks[k].wake
    /\ LET g == tasks[k].guild
           reg == remove_session(sessions, g)
       IN /\ sessions' = reg
          /\ order' = Without(order, g)
          /\ heap' = Collect(heap, reg, snapshot, warn_i)
    /\ tasks' = [tasks EXCEPT ![k] = NoTask]
    /\ UNCHANGED <<ready, cleanup_running, now, nextId, warn_pc, snapshot, warn_i, log, outbox>>

\* is_old with the threshold itself counted as old
is_old_inclusive(s, t) ==
    IF s.is_active THEN s.start_time <= t - MAX_SESSION_DURATION
    ELSE s.end_time # NoTime /\ s.end_time <= t - MAX_SESSION_DURATION

\* SessionManager.cleanup_old_sessions(): collects the guilds whose Session
\* ended (or, when still active, started) before now - MAX_SESSION_DURATION,
\* deletes them and returns how many there were
is_old(s, t) ==
    IF s.is_active THEN s.start_time < t - MAX_SESSION_DURATION
    ELSE s.end_time # NoTime /\ s.end_time < t - MAX_SESSION_DURATION

RECURSIVE sessions_to_remove(_, _, _, _)
sessions_to_remove(h, reg, ord, t) ==
    IF ord = << >> THEN << >>
    ELSE (IF is_old(h[reg[Head(ord)]], t) THEN <<Head(ord)>> ELSE << >>)
         \o sessions_to_remove(h, reg, Tail(ord), t)

RECURSIVE remove_all(_, _)
remove_all(reg, gs) ==
    IF gs = << >> THEN reg ELSE remove_all(remove_session(reg, Head(gs)), Tail(gs))

RECURSIVE without_all(_, _)
without_all(ord, gs) ==
    IF gs = << >> THEN ord ELSE without_all(Without(ord, Head(gs)), Tail(gs))

cleanup_old_sessions(h, reg, ord, t) ==
    LET gs == sessions_to_remove(h, reg, ord, t)
    IN [reg |-> remove_all(reg, gs), order |-> without_all(ord, gs),
        count |-> Len(gs)]

\* one run of the cleanup loop (lines 324-332)
cleanup_sessions ==
    /\ ready
    /\ cleanup_running
    /\ LET r == cleanup_old_sessions(heap, sessions, order, now)
       IN /\ sessions' = r.reg
          /\ order' = r.order
          /\ heap' = Collect(heap, r.reg, snapshot, warn_i)
    /\ UNCHANGED <<ready, cleanup_running, now, nextId, tasks, warn_pc, snapshot, warn_i, log, outbox>>

\* cleanup_old_sessions raises: the registry is left with the first k of the
\* removals done, for some k
interrupted_cleanup ==
    LET gs == sessions_to_remove(heap, sessions, order, now)
    IN \E k \in 0..Len(gs) :
        LET done == SubSeq(gs, 1, k)
            reg == remove_all(sessions, done)
        IN /\ sessions' = reg
           /\ order' = without_all(order, done)
           /\ heap' = Collect(heap, reg, snapshot, warn_i)

\* cleanup_raised without the try of line 327: the error leaves the
\* coroutine and the loop stops
cleanup_raised_stops_loop ==
    /\ ready
    /\ cleanup_running
    /\ interrupted_cleanup
    /\ cleanup_running' = FALSE
    /\ UNCHANGED <<ready, now, nextId, tasks, warn_pc, snapshot, warn_i, log, outbox>>

\* one run of the cleanup loop in which cleanup_old_sessions raises: the
\* except of line 331 logs the error and the run returns normally, so the
\* loop goes on
cleanup_raised ==
    /\ ready
    /\ cleanup_running
    /\ interrupted_cleanup
    /\ UNCHANGED <<ready, cleanup_running, now, nextId, tasks, warn_pc, snapshot, warn_i, log, outbox>>

\* bot.get_channel(session.channel_id): None once the channel is gone, which
\* the bot's state does not decide: `found` is the answer for each Session
\* lines 340-354 from entry i on, up to the next channel.send or the end of
\* the list: entries that are not long, or whose channel is gone, are passed
RECURSIVE warn_from(_, _, _, _, _, _)
warn_from(h, snap, i, lg, t, found) ==
    IF i > Len(snap) THEN [pc |-> "idle", i |-> i, log |-> lg]
    ELSE IF ~is_long_session(get_duration(h[snap[i]], t), SESSION_WARNING_THRESHOLD)
         THEN warn_from(h, snap, i + 1, [lg EXCEPT ![i].result = "not_long"], t, found)
         ELSE IF ~found[snap[i]]
         THEN warn_from(h, snap, i + 1, [lg EXCEPT ![i].result = "no_channel"], t, found)
         ELSE [pc |-> "sending", i |-> i, log |-> [lg EXCEPT ![i].result = "sending"]]

warn_continue(snap, i, lg) ==
    \E found \in [{snap[j] : j \in i..Len(snap)} -> BOOLEAN] :
        LET r == warn_from(heap, snap, i, lg, now, found)
        IN /\ warn_pc' = r.pc
           /\ warn_i' = r.i
           /\ log' = r.log
           /\ snapshot' = IF r.pc = "idle" THEN << >> ELSE snap
           /\ heap' = Collect(heap, sessions,
                              IF r.pc = "idle" THEN << >> ELSE snap, r.i)

\* one run of the warning loop starts (lines 334-354): it takes the list of
\* active sessions and walks it up to its first channel.send
session_warnings ==
    /\ ready
    /\ warn_pc = "idle"
    /\ LET snap == get_all_active_sessions(heap, sessions, order)
           lg == [j \in 1..Len(snap) |->
                    [id |-> snap[j], guild |-> heap[snap[j]].guild_id,
                     channel |-> heap[snap[j]].channel_id,
                     long0 |-> is_long_session(get_duration(heap[snap[j]], now),
                                               SESSION_WARNING_THRESHOLD),
                     result |-> "pending"]]
       IN warn_continue(snap, 1, lg)
    /\ outbox' = << >>
    /\ UNCHANGED <<ready, cleanup_running, now, sessions, order, nextId, tasks>>

\* warn_sent that takes up the same entry again
warn_sent_same_entry ==
    /\ warn_pc = "sending"
    /\ warn_continue(snapshot, warn_i, [log EXCEPT ![warn_i].result = "sent"])
    /\ outbox' = Append(outbox, [channel |-> heap[snapshot[warn_i]].channel_id,
                                  id |-> snapshot[warn_i]])
    /\ UNCHANGED <<ready, cleanup_running, now, sessions, order, nextId, tasks>>

\* channel.send of line 354 returns: the loop goes on with the next entry
warn_sent ==
    /\ warn_pc = "sending"
    /\ warn_continue(snapshot, warn_i + 1, [log EXCEPT ![warn_i].result = "sent"])
    /\ outbox' = Append(outbox, [channel |-> heap[snapshot[warn_i]].channel_id,
                                  id |-> snapshot[warn_i]])
    /\ UNCHANGED <<ready, cleanup_running, now, sessions, order, nextId, tasks>>

\* warn_send_failed as if the error were caught by the outer try of line 359
warn_send_failed_ends_run ==
    /\ warn_pc = "sending"
    /\ warn_pc' = "idle"
    /\ warn_i' = warn_i + 1
    /\ log' = [log EXCEPT ![warn_i].result = "failed"]
    /\ snapshot' = << >>
    /\ heap' = Collect(heap, sessions, << >>, 1)
    /\ UNCHANGED <<ready, cleanup_running, now, sessions, order, nextId, tasks, outbox>>

\* channel.send of line 354 raises: caught at line 356, the loop goes on
warn_send_failed ==
    /\ warn_pc = "sending"
    /\ warn_continue(snapshot, warn_i + 1, [log EXCEPT ![warn_i].result = "failed"])
    /\ UNCHANGED <<ready, cleanup_running, now, sessions, order, nextId, tasks, outbox>>

\* what /stop answers (the embeds of lines 251, 262 and 275)
stop_reply(g, u) ==
    Event("stop", g, u, stop_outcome(heap, get_session(sessions, g), u), 0, "")

\* the value cleanup_sessions gets back at line 328
cleaned ==
    Event("cleanup", None, None, "",
          cleanup_old_sessions(heap, sessions, order, now).count, "")

\* The steps of the bot, each with the record ev of what it was and what it
\* answered.
Ready == on_ready /\ ev' = Event("ready", None, None, "", 0, "")
Clock == Tick /\ ev' = Event("tick", None, None, "", 0, "")
Play(g, u, p) == play(g, u, p, None) /\ ev' = Event("start", g, u, "started", 0, "")
Stop(g, u) == stop_session(g, u) /\ ev' = stop_reply(g, u)
StopSent(k) ==
    stop_sent(k) /\ ev' = Event("stop_sent", tasks[k].guild, None, "", k, "")
StopSendFailed(k) ==
    stop_send_failed(k) /\ ev' = Event("stop_failed", tasks[k].guild, None, "", k, "")
StopRemove(k) ==
    stop_remove(k) /\ ev' = Event("remove", tasks[k].guild, None, "", k, "")
Cleanup == cleanup_sessions /\ ev' = cleaned

\* the commands that write the registry, the delayed removals, the clock and
\* the cleanup loop
Next ==
    \/ Ready
    \/ Clock
    \/ \E g \in Guilds, u \in Users : Play(g, u, "")
    \/ \E g \in Guilds, u \in Users : Stop(g, u)
    \/ \E k \in Ids : StopSent(k)
    \/ \E k \in Ids : StopSendFailed(k)
    \/ \E k \in Ids : StopRemove(k)
    \/ Cleanup

Spec == Init /\ [][Next]_vars

\* the two read-only commands, with what they answered
Query(g, u, target) == play(g, u, "", target) /\ ev' = play_query_reply(g, target)
SessionInfo(g) == session_info(g) /\ ev' = session_info_reply(g)

\* a step that is not one of the two read-only commands
other == Event("other", None, None, "", 0, "")

\* the steps of Next, with sessions started with one of the passwords P, and
\* the two read-only commands; only these two record what they answered
NextWith(P) ==
    \/ on_ready /\ ev' = other
    \/ Tick /\ ev' = other
    \/ \E g \in Guilds, u \in Users, p \in P : play(g, u, p, None) /\ ev' = other
    \/ \E g \in Guilds, u \in Users : stop_session(g, u) /\ ev' = other
    \/ \E k \in Ids : stop_sent(k) /\ ev' = other
    \/ \E k \in Ids : stop_send_failed(k) /\ ev' = other
    \/ \E k \in Ids : stop_remove(k) /\ ev' = other
    \/ cleanup_sessions /\ ev' = other
    \/ \E g \in Guilds, u \in Users, target \in Users : Query(g, u, target)
    \/ \E g \in Guilds : SessionInfo(g)

\* sessions with every kind of password, for what a query discloses
NextQuery == NextWith(PasswordInputs)

SpecQuery == Init /\ [][NextQuery]_vars

\* sessions without a password, for what a query changes
NextRead == NextWith({""})

SpecRead == Init /\ [][NextRead]_vars

\* the steps of Next with a cleanup loop whose runs may fail; only a failed
\* run is recorded
CleanupRaised == cleanup_raised /\ ev' = Event("cleanup_error", None, None, "", 0, "")

NextCleanup ==
    \/ on_ready /\ ev' = other
    \/ Tick /\ ev' = other
    \/ \E g \in Guilds, u \in Users : play(g, u, "", None) /\ ev' = other
    \/ \E g \in Guilds, u \in Users : stop_session(g, u) /\ ev' = other
    \/ \E k \in Ids : stop_sent(k) /\ ev' = other
    \/ \E k \in Ids : stop_send_failed(k) /\ ev' = other
    \/ \E k \in Ids : stop_remove(k) /\ ev' = other
    \/ cleanup_sessions /\ ev' = other
    \/ CleanupRaised

SpecCleanup == Init /\ [][NextCleanup]_vars

\* commands come in up to LastCommand, and the clock then runs on for as long
\* as it takes a record to pass the retention threshold
LastCommand == MaxTime - MAX_SESSION_DURATION
Horizon == MaxTime + ClockStep

\* the same steps where the clock runs to Horizon; what a step answered is
\* not recorded
FairTick == TickUntil(Horizon) /\ UNCHANGED ev
FairRemove == \E k \in Ids : stop_remove(k) /\ UNCHANGED ev
FairCleanup == cleanup_sessions /\ UNCHANGED ev

NextFair ==
    \/ on_ready /\ UNCHANGED ev
    \/ FairTick
    \/ \E g \in Guilds, u \in Users :
            now <= LastCommand /\ play(g, u, "", None) /\ UNCHANGED ev
    \/ \E g \in Guilds, u \in Users :
            now <= LastCommand /\ stop_session(g, u) /\ UNCHANGED ev
    \/ \E k \in Ids : stop_sent(k) /\ UNCHANGED ev
    \/ \E k \in Ids : stop_send_failed(k) /\ UNCHANGED ev
    \/ FairRemove
    \/ FairCleanup
    \/ cleanup_raised /\ UNCHANGED ev

\* time passes, a handler whose sleep is over is resumed, and the cleanup
\* loop gets its runs
SpecFair ==
    /\ Init
    /\ [][NextFair]_vars
    /\ WF_vars(FairTick)
    /\ WF_vars(FairRemove)
    /\ WF_vars(FairCleanup)

\* the same steps together with the warning loop; what a step answered is not
\* recorded here
NextWarn ==
    \/ on_ready /\ UNCHANGED ev
    \/ Tick /\ UNCHANGED ev
    \/ \E g \in Guilds, u \in Users : play(g, u, "", None) /\ UNCHANGED ev
    \/ \E g \in Guilds, u \in Users : stop_session(g, u) /\ UNCHANGED ev
    \/ \E k \in Ids : stop_sent(k) /\ UNCHANGED ev
    \/ \E k \in Ids : stop_send_failed(k) /\ UNCHANGED ev
    \/ \E k \in Ids : stop_remove(k) /\ UNCHANGED ev
    \/ cleanup_sessions /\ UNCHANGED ev
    \/ session_warnings /\ UNCHANGED ev
    \/ warn_sent /\ UNCHANGED ev
    \/ warn_send_failed /\ UNCHANGED ev

SpecWarn == Init /\ [][NextWarn]_vars

\* ------------------------------------------------------------ properties
HasRecord(g) == sessions[g] # None
Rec(g) == heap[sessions[g]]
Active(g) == HasRecord(g) /\ Rec(g).is_active
Ended(g) == HasRecord(g) /\ ~Rec(g).is_active
Stored == {g \in Guilds : HasRecord(g)}
\* the time the cleanup sweep measures a record's age from
RefTime(r) == IF r.end_time # NoTime THEN r.end_time ELSE r.start_time

\* C1: when the removal scheduled by the stop that ended record k fires, and
\* the guild has since (after the end of k, before the removal was due) been
\* given a new session, the registry still holds that new record, active and
\* unchanged.
C1_StaleRemovalSparesNewRecord ==
    [][\A k \in Ids :
        LET g == tasks[k].guild
            cur == sessions[g]
        IN (/\ tasks[k].pc = "sleep"
            /\ ev'.op = "remove" /\ ev'.n = k
            /\ cur # None /\ cur # k
            /\ heap[cur].is_active
            /\ heap[cur].start_time > tasks[k].wake - REMOVE_DELAY
            /\ heap[cur].start_time < tasks[k].wake)
           => /\ sessions'[g] = cur
              /\ heap'[cur] = heap[cur]]_vars

\* C2: a stop by a user who is not the host of the guild's active session
\* is answered 'access denied', ends nothing, schedules no removal and
\* leaves the registry and the record as they were.
C2_NonHostStopDenied ==
    [][\A g \in Guilds :
        (ev'.op = "stop" /\ ev'.guild = g /\ Active(g)
            /\ ev'.user # Rec(g).host_user_id)
        => /\ ev'.outcome = "denied"
           /\ sessions' = sessions
           /\ order' = order
           /\ heap' = heap
           /\ tasks' = tasks]_vars

C2_Witness ==
    /\ ev.op = "stop"
    /\ ev.outcome = "denied"
    /\ Active(ev.guild)
    /\ Rec(ev.guild).host_user_id # ev.user
    /\ Rec(ev.guild).end_time = NoTime

\* C3: a stop in a guild with no record, or with an ended record, is
\* answered 'no active session' whoever issues it, changes nothing in the
\* registry and schedules no removal.
C3_StopWithoutActiveSession ==
    [][\A g \in Guilds :
        (ev'.op = "stop" /\ ev'.guild = g /\ ~Active(g))
        => /\ ev'.outcome = "no_active"
           /\ sessions' = sessions
           /\ order' = order
           /\ heap' = heap
           /\ tasks' = tasks]_vars

\* a user who is not the host stops an ended record still in its grace period
C3_Witness ==
    /\ ev.op = "stop"
    /\ ev.outcome = "no_active"
    /\ Ended(ev.guild)
    /\ Rec(ev.guild).host_user_id # ev.user

\* C4: an active session stops being its guild's active session only by a
\* stop of its own host or by the cleanup sweep.
C4_OnlyHostOrSweepEnds ==
    [][\A g \in Guilds :
        (Active(g) /\ (sessions'[g] # sessions[g] \/ ~heap'[sessions[g]].is_active))
        => \/ ev'.op = "cleanup"
           \/ /\ ev'.op = "stop"
              /\ ev'.guild = g
              /\ ev'.user = Rec(g).host_user_id
              /\ ev'.outcome = "ended"]_vars

C6_EndTimeIffInactive ==
    \A g \in Guilds :
        HasRecord(g) => ((Rec(g).end_time = NoTime) <=> Rec(g).is_active)

C6_Witness ==
    \E g \in Guilds : Ended(g) /\ Rec(g).end_time # NoTime

\* C7: end_time is set only by a stop of the host that finds the record
\* active, to a time not before start_time; once set it never changes; and a
\* stop against an ended record answers 'no active session'.
C7_EndedAtMostOnce ==
    [][\A i \in Ids :
        /\ (heap[i] # NoRecord /\ heap[i].end_time # NoTime)
            => (heap'[i] = NoRecord \/ heap'[i].end_time = heap[i].end_time)
        /\ (heap[i] # NoRecord /\ heap[i].end_time = NoTime
                /\ heap'[i] # NoRecord /\ heap'[i].end_time # NoTime)
            => /\ ev'.op = "stop"
               /\ ev'.outcome = "ended"
               /\ ev'.user = heap[i].host_user_id
               /\ sessions[ev'.guild] = i
               /\ heap'[i].end_time >= heap[i].start_time
        /\ (ev'.op = "stop" /\ sessions[ev'.guild] = i /\ heap[i].end_time # NoTime)
            => (ev'.outcome = "no_active" /\ heap' = heap)]_vars

\* the host stops again, later, a record that was already ended
C7_Witness ==
    /\ ev.op = "stop"
    /\ ev.outcome = "no_active"
    /\ Ended(ev.guild)
    /\ Rec(ev.guild).host_user_id = ev.user
    /\ Rec(ev.guild).end_time < now

\* C8: a cleanup run removes exactly the stored records whose reference
\* time is older than MAX_SESSION_DURATION, leaves the others as they are,
\* and returns the number of records it removed.
C8_CleanupPrecision ==
    [][ev'.op = "cleanup"
        => /\ \A g \in Guilds :
                IF HasRecord(g) /\ RefTime(Rec(g)) < now - MAX_SESSION_DURATION
                THEN sessions'[g] = None
                ELSE /\ sessions'[g] = sessions[g]
                     /\ HasRecord(g) => heap'[sessions[g]] = Rec(g)
           /\ ev'.n = Cardinality(Stored) - Cardinality(Stored')]_vars

\* a run that removed one record and kept one lying exactly on the threshold
C8_Witness ==
    /\ ev.op = "cleanup"
    /\ ev.n = 1
    /\ \E g \in Guilds :
        HasRecord(g) /\ RefTime(Rec(g)) = now - MAX_SESSION_DURATION

\* the notifications of the current warning run that went out for record id
Delivered(id) == {j \in 1..Len(outbox) : outbox[j].id = id}
Attempted == {"sent", "failed", "no_channel"}

\* C9 as stated: when a warning run is over, every session that was active
\* and over the threshold when the run began has exactly one notification.
C9_ExactlyOneWarningPerTick ==
    warn_pc = "idle" =>
        \A i \in 1..Len(log) :
            log[i].long0 => Cardinality(Delivered(log[i].id)) = 1

\* what holds of the log and the outbox of a warning run in every state
WarningRunOK ==
    /\ \A i \in 1..Len(log) :
        /\ Cardinality(Delivered(log[i].id)) <= 1
        /\ (Cardinality(Delivered(log[i].id)) = 1) <=> (log[i].result = "sent")
        /\ \A j \in Delivered(log[i].id) : outbox[j].channel = log[i].channel
        /\ \A i2 \in 1..Len(log) : log[i2].id = log[i].id => i2 = i
        /\ (warn_pc = "idle" /\ log[i].long0) => log[i].result \in Attempted
        /\ log[i].result = "sending"
            => /\ warn_pc = "sending" /\ warn_i = i
               /\ is_long_session(get_duration(heap[log[i].id], now),
                                  SESSION_WARNING_THRESHOLD)
    /\ \A j \in 1..Len(outbox) : \E i \in 1..Len(log) : log[i].id = outbox[j].id

\* C9, amended: in a warning run every entry of the snapshot gets at most
\* one notification, to its own channel; it gets one exactly when its send
\* went through; an entry over the threshold when the run began has, at the
\* end of the run, been sent to, or its send failed, or its channel was gone;
\* and only an entry found over the threshold is sent to.
C9_AtMostOneWarningPerTick == WarningRunOK

\* a run over two sessions, both over the threshold, both notified once
C9_Witness ==
    /\ warn_pc = "idle"
    /\ Len(log) = 2
    /\ Len(outbox) = 2
    /\ \A i \in 1..2 : log[i].long0 /\ log[i].result = "sent"
    /\ outbox[1].channel # outbox[2].channel

\* C10: when the send for one entry of a warning run has failed, the run
\* still goes through every other entry: at its end no entry is left
\* untreated, and every other entry that was over the threshold has been
\* sent to (or its send failed, or its channel was gone).
C10_FailureIsolated ==
    (\E i \in 1..Len(log) : log[i].result = "failed")
    => /\ warn_pc \in {"idle", "sending"}
       /\ \A j \in 1..Len(log) :
            /\ (warn_pc = "sending" /\ j < warn_i) => log[j].result # "pending"
            /\ warn_pc = "idle" => log[j].result \notin {"pending", "sending"}
            /\ (warn_pc = "idle" /\ log[j].long0) => log[j].result \in Attempted

\* the first send of a run failed and the second entry was still notified
C10_Witness ==
    /\ warn_pc = "idle"
    /\ Len(log) = 2
    /\ log[1].result = "failed"
    /\ log[2].result = "sent"
    /\ Len(outbox) = 1

\* C11: for every record, get_duration() is now - start_time while the
\* record is active, is end_time - start_time once it has ended (whatever the
\* clock says by then), and is never negative.
C11_Duration ==
    \A i \in Ids :
        heap[i] # NoRecord
        => LET d == get_duration(heap[i], now)
           IN /\ d >= 0
              /\ heap[i].is_active => d = now - heap[i].start_time
              /\ ~heap[i].is_active
                    => d = heap[i].end_time - heap[i].start_time

\* a session that ran for a while and ended some time ago
C11_Witness ==
    \E g \in Guilds :
        /\ Ended(g)
        /\ Rec(g).end_time > Rec(g).start_time
        /\ now > Rec(g).end_time
        /\ get_duration(Rec(g), now) = Rec(g).end_time - Rec(g).start_time

\* the status of a guild in the state machine of the registry
Status(g) ==
    IF ~HasRecord(g) THEN "ABSENT"
    ELSE IF Rec(g).is_active THEN "ACTIVE" ELSE "ENDED"

\* C12: the status of a guild changes only from ABSENT to ACTIVE by a start,
\* from ACTIVE to ENDED by a stop of the host, from ENDED to ABSENT by a
\* delayed removal or the cleanup sweep, and from ACTIVE to ABSENT by the
\* cleanup sweep reclaiming an overlong session; in particular a delayed
\* removal never takes a guild from ACTIVE to ABSENT.  (A start in a guild
\* whose record has ended installs a new record over the old one; that step
\* is counted here as the start of the new record.)
C12_Lifecycle ==
    [][\A g \in Guilds :
        Status(g)' # Status(g)
        => \/ /\ Status(g)' = "ACTIVE"
              /\ Status(g) \in {"ABSENT", "ENDED"}
              /\ ev'.op = "start" /\ ev'.guild = g
           \/ /\ Status(g) = "ACTIVE" /\ Status(g)' = "ENDED"
              /\ ev'.op = "stop" /\ ev'.guild = g /\ ev'.outcome = "ended"
              /\ ev'.user = Rec(g).host_user_id
           \/ /\ Status(g) = "ENDED" /\ Status(g)' = "ABSENT"
              /\ \/ ev'.op = "cleanup"
                 \/ ev'.op = "remove" /\ ev'.guild = g
           \/ /\ Status(g) = "ACTIVE" /\ Status(g)' = "ABSENT"
              /\ ev'.op = "cleanup"
              /\ Rec(g).start_time < now - MAX_SESSION_DURATION]_vars

\* the passwords a session can be protected with
SetPasswords == {password_to_use(p) : p \in PasswordInputs} \ {NoPassword}
\* the heap with the password of Session object i changed to pw
with_password(h, i, pw) == [h EXCEPT ![i].password = pw]

\* C13: a query for a target user answers 'in active session' exactly when
\* some guild's record is active and hosted by that user, and the answer is
\* the same in any state that differs from the current one only in the
\* value of a password that is set.
C13_PasswordPresenceOnly ==
    [][ev'.op = "query_user"
        => /\ (ev'.outcome = "in_session")
                <=> \E g \in Guilds :
                        Active(g) /\ Rec(g).host_user_id = ev'.user
           /\ \A i \in Ids, pw \in SetPasswords :
                (heap[i] # NoRecord /\ heap[i].password # NoPassword)
                => query_reply(with_password(heap, i, pw), sessions, order,
                               now, ev'.guild, ev'.user) = ev']_vars

\* C14: when cleanup_old_sessions has raised in a run of the cleanup loop,
\* the error has not left the run: the loop is still running, so that its
\* next run takes place.
C14_CleanupFailsSoft ==
    ev.op = "cleanup_error" => (ready /\ cleanup_running)

\* a run that failed half way and left an old record for the next run
C14_Witness ==
    /\ ev.op = "cleanup_error"
    /\ cleanup_running
    /\ \E g \in Guilds : HasRecord(g) /\ is_old(Rec(g), now)

\* Session object i is in the registry
InRegistry(i) == \E g \in Guilds : sessions[g] = i

\* C16: every record that has been ended is eventually no longer in the
\* registry, also when the reply of the stop could not be sent and the
\* delayed removal never comes.
C16_EndedEventuallyReclaimed ==
    \A i \in Ids :
        (InRegistry(i) /\ ~heap[i].is_active) ~> ~InRegistry(i)

\* an ended record whose stop handler has died in the send: nothing is
\* left to remove it but the cleanup loop
C16_Witness ==
    \E g \in Guilds : Ended(g) /\ tasks[sessions[g]] = NoTask

\* C15: an ended record leaves the registry only by a new start in its
\* guild, by the cleanup sweep, or by a delayed removal that comes no
\* earlier than REMOVE_DELAY after that record's own end; until then
\* get_session returns it.
C15_GracePeriod ==
    [][\A g \in Guilds :
        (Ended(g) /\ sessions'[g] # sessions[g])
        => \/ ev'.op = "start" /\ ev'.guild = g
           \/ ev'.op = "cleanup"
           \/ /\ ev'.op = "remove" /\ ev'.guild = g
              /\ now >= Rec(g).end_time + REMOVE_DELAY]_vars

\* C17: the session-info command and play with a target user change
\* nothing: no record is created, ended, removed or modified and no removal
\* is scheduled; and session-info answers 'no active session' exactly when
\* the guild has no record or its record is not active.
C17_QueriesReadOnly ==
    [][ev'.op \in {"session_info", "query_user"}
        => /\ sessions' = sessions
           /\ order' = order
           /\ heap' = heap
           /\ nextId' = nextId
           /\ tasks' = tasks
           /\ ev'.op = "session_info"
                => ((ev'.outcome = "no_active") <=> ~Active(ev'.guild))]_vars

\* session-info in a guild whose record has ended and is still stored
C17_Witness ==
    /\ ev.op = "session_info"
    /\ ev.outcome = "no_active"
    /\ Ended(ev.guild)
    /\ \E g \in Guilds : Active(g)

\* the record of guild g is not the same before and after the step
Changed(g) ==
    \/ sessions'[g] # sessions[g]
    \/ HasRecord(g) /\ heap'[sessions[g]] # Rec(g)

\* C18: a start, a stop (whatever it answers) and a delayed removal for
\* guild g leave the record of every other guild as it was, and no step but
\* a run of the cleanup sweep changes the records of two guilds.
C18_GuildIsolation ==
    [][/\ ev'.op \in {"start", "stop", "stop_sent", "stop_failed", "remove"}
            => \A g \in Guilds \ {ev'.guild} : ~Changed(g)
       /\ ev'.op # "cleanup"
            => Cardinality({g \in Guilds : Changed(g)}) <= 1]_vars

\* a delayed removal has emptied its guild while another guild keeps an
\* ended record
C18_Witness ==
    /\ ev.op = "remove"
    /\ ~HasRecord(ev.guild)
    /\ \E g \in Guilds \ {ev.guild} : Ended(g)

\* C19: whenever the warning sweep starts the send of a notification for an
\* entry of its snapshot, that record is at that moment still the current
\* record of its guild and still active.
C19_NoWarningForStaleEntry ==
    [][\A i \in 1..Len(log') :
        (/\ log'[i].result = "sending"
         /\ ~(i <= Len(log) /\ log[i] = log'[i]))
        => /\ sessions'[log'[i].guild] = log'[i].id
           /\ heap'[log'[i].id].is_active]_vars
====
